---- MODULE Spec2Model ----
(***************************************************************************)
(* Library Inventory Manager: the Book record (library_manager/book.py)    *)
(* and the LibraryInventory catalog store (library_manager/inventory.py)   *)
(* with its JSON catalog file and the backup file of corrupt-file          *)
(* recovery.                                                                *)
(*                                                                         *)
(* A file is modelled by its content: absent, a JSON document (a list of   *)
(* JSON objects, each an ordered list of key/value pairs, as json.dump     *)
(* writes them), text that is not JSON, or bytes that are not UTF-8.       *)
(* The outcomes of the operating system calls (open for reading, rename,   *)
(* open for writing and the write itself) are inputs of the actions.       *)
(***************************************************************************)
EXTENDS Integers, Sequences, FiniteSets, TLC

VARIABLES
    books,        \* books[s]: LibraryInventory.books of store instance s
    alive,        \* alive[s]: the constructor of s has returned an object
    disk,         \* disk.cat: content at catalog_file, disk.bak: at the backup path
    last,         \* the most recent call: what was called and what came back
    issuedSince,  \* history: isbns issued by s (issue_book returned True) with no
                  \*          return_book(isbn) call on s since
    mark,         \* history: the collection and file remembered across two calls
                  \*          that follow each other (issue then return, save then
                  \*          construct)
    inserted,     \* history: inserted[s][k] tells where books[s][k] came from: the
                  \*          title, author and isbn it came with, and whether
                  \*          load_catalog made it or a caller passed it to add_book
    out           \* what the most recent query returned

vars == <<books, alive, disk, last, issuedSince, mark, inserted, out>>

----------------------------------------------------------------------------
(* Bounds and input sets *)

\* a store that holds MaxBooks books is offered no further book with a new isbn
MaxBooks == 2

\* isbns are keys, compared for equality only
Isbns == {1, 2}

\* the isbn argument of a call that takes none
NoIsbn == 0

\* titles and authors are text: sequences of characters
T1 == <<"A", "b">>

T2 == <<"a", "B", "c">>

A1 == <<"x">>

\* the store instances; Procs are those that run under Spec
Stores == {"A", "B"}

Procs == {"A"}

----------------------------------------------------------------------------
(* book.py *)

\* Book.__init__
Book(title, author, isbn, status) ==
    [title |-> title, author |-> author, isbn |-> isbn, status |-> status]

\* the default of Book.__init__'s status parameter
DefaultStatus == "available"

\* Book.to_dict, as json.dump writes it: the four items in insertion order
to_dict(b) ==
    << <<"title", b.title>>, <<"author", b.author>>,
       <<"isbn", b.isbn>>, <<"status", b.status>> >>

\* Book.issue that reports the issue and leaves the status as it was
Book_issue_no_flip(b) ==
    [book |-> b, ret |-> b.status = "available"]

\* Book.issue: the book afterwards and the value returned
Book_issue(b) ==
    IF b.status = "available"
    THEN [book |-> [b EXCEPT !.status = "issued"], ret |-> TRUE]
    ELSE [book |-> b, ret |-> FALSE]

\* Book.return_book that reports the return and leaves the status as it was
Book_return_book_no_flip(b) ==
    [book |-> b, ret |-> b.status = "issued"]

\* Book.return_book
Book_return_book(b) ==
    IF b.status = "issued"
    THEN [book |-> [b EXCEPT !.status = "available"], ret |-> TRUE]
    ELSE [book |-> b, ret |-> FALSE]

\* Book.is_available
is_available(b) == b.status = "available"

----------------------------------------------------------------------------
(* The books a caller adds: Book(title, author, isbn), cli/main.py line 99.   *)
(* Two of them share an isbn and differ in title.                          *)

NewBooks ==
    { Book(T1, A1, 1, DefaultStatus),
      Book(T2, A1, 1, DefaultStatus),
      Book(T2, A1, 2, DefaultStatus) }

----------------------------------------------------------------------------
(* File contents *)

Absent == [kind |-> "absent", id |-> 0, doc |-> <<>>]

\* a JSON document: a list of objects
Json(doc) == [kind |-> "json", id |-> 0, doc |-> doc]

\* text that json.load rejects with JSONDecodeError; id tells contents apart
BadJson(n) == [kind |-> "badjson", id |-> n, doc |-> <<>>]

\* bytes that are not UTF-8: reading them raises UnicodeDecodeError
NonUtf8 == [kind |-> "nonutf8", id |-> 0, doc |-> <<>>]

\* what open(..., 'w') leaves when the write fails after the open: the file is
\* truncated and holds at most a strict prefix of the document, which is not JSON
Truncated == BadJson(0)

----------------------------------------------------------------------------
(* inventory.py: serialization *)

\* books_data = [book.to_dict() for book in self.books], as json.dump writes it
dump(bks) == Json([i \in 1..Len(bks) |-> to_dict(bks[i])])

\* the dict json.load builds from a JSON object: a later pair of a key wins
json_object(pairs) ==
    [k \in {pairs[i][1] : i \in DOMAIN pairs} |->
        pairs[CHOOSE i \in DOMAIN pairs :
                /\ pairs[i][1] = k
                /\ \A j \in DOMAIN pairs : pairs[j][1] = k => j <= i][2]]

\* Book(**book_dict) raises TypeError unless the keys are parameters of
\* Book.__init__ and title, author and isbn are among them
kwargs_ok(d) ==
    /\ DOMAIN d \subseteq {"title", "author", "isbn", "status"}
    /\ {"title", "author", "isbn"} \subseteq DOMAIN d

\* Book(**book_dict) that drops the stored status
Book_from_dict_default_status(d) ==
    Book(d["title"], d["author"], d["isbn"], DefaultStatus)

\* Book(**book_dict): status takes its default when the key is missing
Book_from_dict(d) ==
    Book(d["title"], d["author"], d["isbn"],
         IF "status" \in DOMAIN d THEN d["status"] ELSE DefaultStatus)

\* [Book(**book_dict) for book_dict in books_data]
books_from_data(doc) ==
    [i \in 1..Len(doc) |-> Book_from_dict(json_object(doc[i]))]

\* save_catalog: wo is the outcome of the file write
\*   "ok"          the document is written
\*   "open_failed" open(..., 'w') raises: the file is as it was
\*   "partial"     the open truncates the file and the write then raises
\* Both failures are caught; the value returned tells them from success.
WriteOutcomes == {"ok", "open_failed", "partial"}

\* save_catalog that keeps the records of the file whose isbn no book of the
\* collection has: it writes them in front of the collection
save_catalog_merge(bks, dsk, wo) ==
    CASE wo = "ok" ->
           LET kept == IF /\ dsk.cat.kind = "json"
                          /\ \A i \in DOMAIN dsk.cat.doc :
                                kwargs_ok(json_object(dsk.cat.doc[i]))
                       THEN SelectSeq(books_from_data(dsk.cat.doc),
                                LAMBDA f : \A i \in DOMAIN bks : bks[i].isbn # f.isbn)
                       ELSE <<>>
           IN  [disk |-> [dsk EXCEPT !.cat = dump(kept \o bks)],
                ret |-> TRUE, wres |-> wo]
      [] wo = "open_failed" ->
           [disk |-> dsk, ret |-> FALSE, wres |-> wo]
      [] wo = "partial" ->
           [disk |-> [dsk EXCEPT !.cat = Truncated], ret |-> FALSE, wres |-> wo]

\* save_catalog that opens the file for appending: what the file held stays
\* and the document is written after it, which no longer parses
save_catalog_append(bks, dsk, wo) ==
    CASE wo = "ok" ->
           [disk |-> [dsk EXCEPT !.cat = IF dsk.cat.kind = "absent"
                                         THEN dump(bks) ELSE BadJson(3)],
            ret |-> TRUE, wres |-> wo]
      [] wo = "open_failed" ->
           [disk |-> dsk, ret |-> FALSE, wres |-> wo]
      [] wo = "partial" ->
           [disk |-> [dsk EXCEPT !.cat = Truncated], ret |-> FALSE, wres |-> wo]

save_catalog(bks, dsk, wo) ==
    CASE wo = "ok" ->
           [disk |-> [dsk EXCEPT !.cat = dump(bks)], ret |-> TRUE, wres |-> wo]
      [] wo = "open_failed" ->
           [disk |-> dsk, ret |-> FALSE, wres |-> wo]
      [] wo = "partial" ->
           [disk |-> [dsk EXCEPT !.cat = Truncated], ret |-> FALSE, wres |-> wo]

\* what reading and parsing the catalog file raises, "none" when it loads
\*   rf: the outcome of open(..., 'r'): "ok" or "ioerror"
load_exception(content, rf) ==
    CASE rf = "ioerror" -> "IOError"
      [] content.kind = "badjson" -> "JSONDecodeError"
      [] content.kind = "nonutf8" -> "UnicodeDecodeError"
      [] content.kind = "json"
         /\ \E i \in DOMAIN content.doc : ~kwargs_ok(json_object(content.doc[i]))
           -> "TypeError"
      [] OTHER -> "none"

\* Path.rename(backup_file): the backup path now holds the file, replacing
\* what was there, and the catalog path is free
rename_to_backup(dsk) == [cat |-> Absent, bak |-> dsk.cat]

\* the result of a call that made no file write
NoWrite(bks, dsk, r) ==
    [books |-> bks, disk |-> dsk, ret |-> r, raised |-> FALSE, wres |-> "none"]

\* load_catalog that does not write the catalog when the file is absent
load_catalog_no_create(dsk, rf, rn, wo) ==
    IF dsk.cat.kind = "absent"
    THEN NoWrite(<<>>, dsk, TRUE)
    ELSE LET exc == load_exception(dsk.cat, rf) IN
         CASE exc = "none" ->
                NoWrite(books_from_data(dsk.cat.doc), dsk, TRUE)
           [] exc = "JSONDecodeError" ->
                IF rn = "fail"
                THEN [books |-> <<>>, disk |-> dsk, ret |-> FALSE,
                      raised |-> TRUE, wres |-> "none"]
                ELSE LET sv == save_catalog(<<>>, rename_to_backup(dsk), wo)
                     IN  [books |-> <<>>, disk |-> sv.disk, ret |-> FALSE,
                          raised |-> FALSE, wres |-> sv.wres]
           [] OTHER ->
                NoWrite(<<>>, dsk, FALSE)

\* load_catalog that treats every failure to load as a corrupted file: the
\* file is moved to the backup and an empty catalog is written
load_catalog_always_recovers(dsk, rf, rn, wo) ==
    IF dsk.cat.kind = "absent"
    THEN LET sv == save_catalog(<<>>, dsk, wo)
         IN  [books |-> <<>>, disk |-> sv.disk, ret |-> TRUE,
              raised |-> FALSE, wres |-> sv.wres]
    ELSE LET exc == load_exception(dsk.cat, rf) IN
         CASE exc = "none" ->
                NoWrite(books_from_data(dsk.cat.doc), dsk, TRUE)
           [] OTHER ->
                IF rn = "fail"
                THEN [books |-> <<>>, disk |-> dsk, ret |-> FALSE,
                      raised |-> TRUE, wres |-> "none"]
                ELSE LET sv == save_catalog(<<>>, rename_to_backup(dsk), wo)
                     IN  [books |-> <<>>, disk |-> sv.disk, ret |-> FALSE,
                          raised |-> FALSE, wres |-> sv.wres]

\* load_catalog that writes the catalog back after it has loaded it
load_catalog_resaves(dsk, rf, rn, wo) ==
    IF dsk.cat.kind = "absent"
    THEN LET sv == save_catalog(<<>>, dsk, wo)
         IN  [books |-> <<>>, disk |-> sv.disk, ret |-> TRUE,
              raised |-> FALSE, wres |-> sv.wres]
    ELSE LET exc == load_exception(dsk.cat, rf) IN
         CASE exc = "none" ->
                LET sv == save_catalog(books_from_data(dsk.cat.doc), dsk, wo)
                IN  [books |-> books_from_data(dsk.cat.doc), disk |-> sv.disk,
                     ret |-> TRUE, raised |-> FALSE, wres |-> sv.wres]
           [] exc = "JSONDecodeError" ->
                IF rn = "fail"
                THEN [books |-> <<>>, disk |-> dsk, ret |-> FALSE,
                      raised |-> TRUE, wres |-> "none"]
                ELSE LET sv == save_catalog(<<>>, rename_to_backup(dsk), wo)
                     IN  [books |-> <<>>, disk |-> sv.disk, ret |-> FALSE,
                          raised |-> FALSE, wres |-> sv.wres]
           [] OTHER ->
                NoWrite(<<>>, dsk, FALSE)

\* __init__ and load_catalog. rn is the outcome of the rename: "ok" or "fail"
\* (os.rename raises: no permission, or on Windows the backup already exists).
\* ret is load_catalog's return value; raised: the exception left __init__.
load_catalog(dsk, rf, rn, wo) ==
    IF dsk.cat.kind = "absent"
    THEN LET sv == save_catalog(<<>>, dsk, wo)
         IN  [books |-> <<>>, disk |-> sv.disk, ret |-> TRUE,
              raised |-> FALSE, wres |-> sv.wres]
    ELSE LET exc == load_exception(dsk.cat, rf) IN
         CASE exc = "none" ->
                NoWrite(books_from_data(dsk.cat.doc), dsk, TRUE)
           [] exc = "JSONDecodeError" ->
                IF rn = "fail"
                THEN [books |-> <<>>, disk |-> dsk, ret |-> FALSE,
                      raised |-> TRUE, wres |-> "none"]
                ELSE LET sv == save_catalog(<<>>, rename_to_backup(dsk), wo)
                     IN  [books |-> <<>>, disk |-> sv.disk, ret |-> FALSE,
                          raised |-> FALSE, wres |-> sv.wres]
           [] OTHER ->
                NoWrite(<<>>, dsk, FALSE)

----------------------------------------------------------------------------
(* inventory.py: operations on the collection *)

\* search_by_isbn: the index of the first book with that isbn, 0 for None
search_by_isbn(bks, isbn) ==
    IF \E i \in DOMAIN bks : bks[i].isbn = isbn
    THEN CHOOSE i \in DOMAIN bks :
            /\ bks[i].isbn = isbn
            /\ \A j \in DOMAIN bks : bks[j].isbn = isbn => i <= j
    ELSE 0

\* add_book without the check for an existing isbn
add_book_no_isbn_check(bks, dsk, book, wo) ==
    LET sv == save_catalog(Append(bks, book), dsk, wo)
    IN  [books |-> Append(bks, book), disk |-> sv.disk, ret |-> TRUE,
         raised |-> FALSE, wres |-> sv.wres, alias |-> TRUE]

\* add_book that takes the book out again when the save fails
add_book_rollback(bks, dsk, book, wo) ==
    IF \E i \in DOMAIN bks : bks[i].isbn = book.isbn
    THEN NoWrite(bks, dsk, FALSE)
    ELSE LET sv == save_catalog(Append(bks, book), dsk, wo)
         IN  [books |-> IF sv.ret THEN Append(bks, book) ELSE bks,
              disk |-> sv.disk, ret |-> sv.ret,
              raised |-> FALSE, wres |-> sv.wres, alias |-> TRUE]

\* add_book that stores a copy of the caller's book
add_book_copy(bks, dsk, book, wo) ==
    IF \E i \in DOMAIN bks : bks[i].isbn = book.isbn
    THEN NoWrite(bks, dsk, FALSE)
    ELSE LET sv == save_catalog(Append(bks, book), dsk, wo)
         IN  [books |-> Append(bks, book), disk |-> sv.disk, ret |-> TRUE,
              raised |-> FALSE, wres |-> sv.wres, alias |-> FALSE]

\* add_book that puts the new book in front of the others
add_book_prepend(bks, dsk, book, wo) ==
    IF \E i \in DOMAIN bks : bks[i].isbn = book.isbn
    THEN NoWrite(bks, dsk, FALSE)
    ELSE LET nb == <<book>> \o bks
             sv == save_catalog(nb, dsk, wo)
         IN  [books |-> nb, disk |-> sv.disk, ret |-> TRUE,
              raised |-> FALSE, wres |-> sv.wres, alias |-> TRUE]

\* add_book: the return value of save_catalog is not looked at.
\* alias: self.books.append(book) stores the caller's object, not a copy of it
add_book(bks, dsk, book, wo) ==
    IF \E i \in DOMAIN bks : bks[i].isbn = book.isbn
    THEN NoWrite(bks, dsk, FALSE)
    ELSE LET sv == save_catalog(Append(bks, book), dsk, wo)
         IN  [books |-> Append(bks, book), disk |-> sv.disk, ret |-> TRUE,
              raised |-> FALSE, wres |-> sv.wres, alias |-> TRUE]

\* issue_book that takes the issued book out of the collection
issue_book_takes_out(bks, dsk, isbn, wo) ==
    LET i == search_by_isbn(bks, isbn) IN
    IF i = 0 THEN NoWrite(bks, dsk, FALSE)
    ELSE LET r == Book_issue(bks[i]) IN
         IF r.ret
         THEN LET nb == SubSeq(bks, 1, i - 1) \o SubSeq(bks, i + 1, Len(bks))
                  sv == save_catalog(nb, dsk, wo)
              IN  [books |-> nb, disk |-> sv.disk, ret |-> TRUE,
                   raised |-> FALSE, wres |-> sv.wres]
         ELSE NoWrite(bks, dsk, FALSE)

\* issue_book
issue_book(bks, dsk, isbn, wo) ==
    LET i == search_by_isbn(bks, isbn) IN
    IF i = 0 THEN NoWrite(bks, dsk, FALSE)
    ELSE LET r == Book_issue(bks[i]) IN
         IF r.ret
         THEN LET nb == [bks EXCEPT ![i] = r.book]
                  sv == save_catalog(nb, dsk, wo)
              IN  [books |-> nb, disk |-> sv.disk, ret |-> TRUE,
                   raised |-> FALSE, wres |-> sv.wres]
         ELSE NoWrite(bks, dsk, FALSE)

\* return_book that saves the catalog whether or not the book was returned
return_book_saves_always(bks, dsk, isbn, wo) ==
    LET i == search_by_isbn(bks, isbn) IN
    IF i = 0 THEN NoWrite(bks, dsk, FALSE)
    ELSE LET r == Book_return_book(bks[i])
             nb == [bks EXCEPT ![i] = r.book]
             sv == save_catalog(nb, dsk, wo)
         IN  [books |-> nb, disk |-> sv.disk, ret |-> r.ret,
              raised |-> FALSE, wres |-> sv.wres]

\* return_book
return_book(bks, dsk, isbn, wo) ==
    LET i == search_by_isbn(bks, isbn) IN
    IF i = 0 THEN NoWrite(bks, dsk, FALSE)
    ELSE LET r == Book_return_book(bks[i]) IN
         IF r.ret
         THEN LET nb == [bks EXCEPT ![i] = r.book]
                  sv == save_catalog(nb, dsk, wo)
              IN  [books |-> nb, disk |-> sv.disk, ret |-> TRUE,
                   raised |-> FALSE, wres |-> sv.wres]
         ELSE NoWrite(bks, dsk, FALSE)

----------------------------------------------------------------------------
(* inventory.py: queries *)

\* str.lower() of one character, for the letters the model's texts use
lower_char(c) ==
    CASE c = "A" -> "a"
      [] c = "B" -> "b"
      [] c = "C" -> "c"
      [] c = "X" -> "x"
      [] OTHER -> c

\* str.lower()
lower(str) == [i \in 1..Len(str) |-> lower_char(str[i])]

\* Python's  sub in str
contains(sub, str) ==
    \E off \in 0..(Len(str) - Len(sub)) :
        SubSeq(str, off + 1, off + Len(sub)) = sub

\* search_by_title: a new list of the books whose title matches
\* search_by_title that compares without .lower()
search_by_title_case_sensitive(bks, title) ==
    SelectSeq(bks, LAMBDA b : contains(title, b.title))

search_by_title(bks, title) ==
    SelectSeq(bks, LAMBDA b : contains(lower(title), lower(b.title)))

\* search_by_author
search_by_author(bks, author) ==
    SelectSeq(bks, LAMBDA b : contains(lower(author), lower(b.author)))

\* display_all: return self.books
display_all(bks) == bks

\* return self.books: the list display_all returns is the store's own list,
\* not a copy of it
display_all_alias == TRUE

\* sum(1 for book in self.books if book.is_available())
RECURSIVE count_available(_)
count_available(bks) ==
    IF bks = <<>> THEN 0
    ELSE (IF is_available(Head(bks)) THEN 1 ELSE 0) + count_available(Tail(bks))

\* get_statistics
\* get_statistics that counts the books whose status is "issued"
get_statistics_counts_issued(bks) ==
    [total |-> Len(bks), available |-> count_available(bks),
     issued |-> Len(SelectSeq(bks, LAMBDA b : b.status = "issued"))]

get_statistics(bks) ==
    LET total == Len(bks)
        available == count_available(bks)
    IN  [total |-> total, available |-> available, issued |-> total - available]

\* the texts a caller searches for: in titles (both titles hold "ab" when
\* case is ignored, one holds "bc") and in authors
TitleQueries == { <<"a", "B">>, <<"b", "C">>, <<"z">> }

AuthorQueries == { <<"X">>, <<"z">> }

----------------------------------------------------------------------------
(* The files a store may find when it is constructed *)

\* a record object without the status key, its keys not in to_dict's order
ObjNoStatus ==
    << <<"isbn", 1>>, <<"title", T1>>, <<"author", A1>> >>

\* a record object with a status that is neither "available" nor "issued"
ObjLost == to_dict(Book(T2, A1, 2, "lost"))

\* a record object with a key that Book.__init__ does not take
ObjExtraKey ==
    << <<"title", T1>>, <<"author", A1>>, <<"isbn", 1>>, <<"year", 1>> >>

InitialCatalogs ==
    { Absent,
      Json(<<>>),
      Json(<<ObjNoStatus>>),
      Json(<<to_dict(Book(T1, A1, 1, "available")),
             to_dict(Book(T2, A1, 1, "issued"))>>),
      Json(<<ObjLost>>),
      Json(<<ObjExtraKey>>),
      BadJson(1),
      NonUtf8 }

\* the backup path is free, or holds the backup of an earlier recovery
InitialDisks ==
    {[cat |-> c, bak |-> Absent] : c \in InitialCatalogs}
        \cup {[cat |-> BadJson(1), bak |-> BadJson(2)]}

ReadOutcomes == {"ok", "ioerror"}

RenameOutcomes == {"ok", "fail"}

----------------------------------------------------------------------------
(* State machine *)

\* mark.kind:
\*   "issued"     issue_book has just returned True; books and cat are those
\*                before that call
\*   "returned"   return_book of the same isbn on the same store followed it
\*   "persisted"  save_catalog has just returned True; books is what it saved
\*                and cat what the file held before
\*   "reloaded"   a store was constructed right after that save
NoMark == [kind |-> "none", store |-> "-", books |-> <<>>, cat |-> Absent]

\* the record of a call: rres is the outcome of open(..., 'r'), "none" if the
\* call opened nothing for reading; wres likewise for the write
Call(op, s, arg, r, rres) ==
    [op |-> op, store |-> s, arg |-> arg, ret |-> r.ret,
     raised |-> r.raised, rres |-> rres, wres |-> r.wres]

\* the record of a query: it returns its result and opens no file
Query(op, s, arg) ==
    [op |-> op, store |-> s, arg |-> arg, ret |-> TRUE,
     raised |-> FALSE, rres |-> "none", wres |-> "none"]

\* out of a call that is no query
NoOut == [q |-> <<>>, list |-> <<>>, stats |-> get_statistics(<<>>)]

\* where a book of the collection came from
Origin(b, loaded, shared) ==
    [title |-> b.title, author |-> b.author, isbn |-> b.isbn,
     loaded |-> loaded, shared |-> shared]

Init ==
    /\ books = [s \in Stores |-> <<>>]
    /\ alive = [s \in Stores |-> FALSE]
    /\ disk \in InitialDisks
    /\ last = [op |-> "none", store |-> "-", arg |-> NoIsbn, ret |-> FALSE,
               raised |-> FALSE, rres |-> "none", wres |-> "none"]
    /\ issuedSince = [s \in Stores |-> {}]
    /\ mark = NoMark
    /\ inserted = [s \in Stores |-> <<>>]
    /\ out = NoOut

\* LibraryInventory(catalog_file): a new instance takes the place of s
Construct(s) ==
    \E rf \in ReadOutcomes, rn \in RenameOutcomes, wo \in WriteOutcomes :
        \E r \in {load_catalog(disk, rf, rn, wo)} :
        /\ books' = [books EXCEPT ![s] = r.books]
        /\ alive' = [alive EXCEPT ![s] = ~r.raised]
        /\ disk' = r.disk
        /\ last' = Call("construct", s, NoIsbn, r,
                        IF disk.cat.kind = "absent" THEN "none" ELSE rf)
        /\ issuedSince' = [issuedSince EXCEPT ![s] = {}]
        /\ mark' = IF mark.kind = "persisted"
                   THEN [mark EXCEPT !.kind = "reloaded"]
                   ELSE NoMark
        /\ inserted' = [inserted EXCEPT ![s] =
                          [k \in 1..Len(r.books) |-> Origin(r.books[k], TRUE, FALSE)]]
        /\ out' = NoOut

\* inventory.add_book(book)
AddBook(s) ==
    \E b \in NewBooks, wo \in WriteOutcomes :
        \E r \in {add_book(books[s], disk, b, wo)} :
        /\ alive[s]
        /\ Len(books[s]) < MaxBooks \/ ~r.ret
        /\ books' = [books EXCEPT ![s] = r.books]
        /\ disk' = r.disk
        /\ last' = Call("add", s, b.isbn, r, "none")
        /\ mark' = NoMark
        /\ inserted' = IF r.ret
                       THEN [inserted EXCEPT ![s] = Append(@, Origin(b, FALSE, r.alias))]
                       ELSE inserted
        /\ out' = NoOut
        /\ UNCHANGED <<alive, issuedSince>>

\* inventory.issue_book(isbn)
IssueBook(s) ==
    \E i \in Isbns, wo \in WriteOutcomes :
        \E r \in {issue_book(books[s], disk, i, wo)} :
        /\ alive[s]
        /\ books' = [books EXCEPT ![s] = r.books]
        /\ disk' = r.disk
        /\ last' = Call("issue", s, i, r, "none")
        /\ issuedSince' = IF r.ret
                          THEN [issuedSince EXCEPT ![s] = @ \cup {i}]
                          ELSE issuedSince
        /\ mark' = IF r.ret
                   THEN [kind |-> "issued", store |-> s,
                         books |-> books[s], cat |-> disk.cat]
                   ELSE NoMark
        /\ out' = NoOut
        /\ UNCHANGED <<alive, inserted>>

\* inventory.return_book(isbn)
ReturnBook(s) ==
    \E i \in Isbns, wo \in WriteOutcomes :
        \E r \in {return_book(books[s], disk, i, wo)} :
        /\ alive[s]
        /\ books' = [books EXCEPT ![s] = r.books]
        /\ disk' = r.disk
        /\ last' = Call("return", s, i, r, "none")
        /\ issuedSince' = [issuedSince EXCEPT ![s] = @ \ {i}]
        /\ mark' = IF mark.kind = "issued" /\ mark.store = s /\ last.arg = i
                   THEN [mark EXCEPT !.kind = "returned"]
                   ELSE NoMark
        /\ out' = NoOut
        /\ UNCHANGED <<alive, inserted>>

\* inventory.save_catalog()
SaveCatalog(s) ==
    \E wo \in WriteOutcomes :
        \E sv \in {save_catalog(books[s], disk, wo)} :
        /\ alive[s]
        /\ disk' = sv.disk
        /\ last' = [op |-> "persist", store |-> s, arg |-> NoIsbn,
                    ret |-> sv.ret, raised |-> FALSE,
                    rres |-> "none", wres |-> sv.wres]
        /\ mark' = IF sv.ret
                   THEN [kind |-> "persisted", store |-> s,
                         books |-> books[s], cat |-> disk.cat]
                   ELSE NoMark
        /\ out' = NoOut
        /\ UNCHANGED <<books, alive, issuedSince, inserted>>

\* the queries read self.books and assign nothing
Answer(op, s, arg, q, list, stats) ==
    /\ alive[s]
    /\ last' = Query(op, s, arg)
    /\ out' = [q |-> q, list |-> list, stats |-> stats]
    /\ mark' = NoMark
    /\ UNCHANGED <<books, alive, disk, issuedSince, inserted>>

\* inventory.search_by_title(title)
SearchByTitle(s) ==
    \E q \in TitleQueries :
        Answer("search_by_title", s, NoIsbn, q,
               search_by_title(books[s], q), NoOut.stats)

\* inventory.search_by_author(author)
SearchByAuthor(s) ==
    \E q \in AuthorQueries :
        Answer("search_by_author", s, NoIsbn, q,
               search_by_author(books[s], q), NoOut.stats)

\* inventory.search_by_isbn(isbn): the book found, none for None
SearchByIsbn(s) ==
    \E i \in Isbns :
        Answer("search_by_isbn", s, i, <<>>,
               IF search_by_isbn(books[s], i) = 0 THEN <<>>
               ELSE <<books[s][search_by_isbn(books[s], i)]>>,
               NoOut.stats)

\* inventory.display_all()
DisplayAll(s) ==
    Answer("display_all", s, NoIsbn, <<>>, display_all(books[s]), NoOut.stats)

\* inventory.get_statistics()
GetStatistics(s) ==
    Answer("get_statistics", s, NoIsbn, <<>>, <<>>, get_statistics(books[s]))

Next ==
    \E s \in Procs :
        \/ Construct(s)
        \/ AddBook(s)
        \/ IssueBook(s)
        \/ ReturnBook(s)
        \/ SaveCatalog(s)
        \/ SearchByTitle(s)
        \/ SearchByAuthor(s)
        \/ SearchByIsbn(s)
        \/ DisplayAll(s)
        \/ GetStatistics(s)

Spec == Init /\ [][Next]_vars

----------------------------------------------------------------------------
(* Callers that keep the objects they exchanged with the store *)

\* the caller of add_book kept the Book it passed and now calls issue() or
\* return_book() on it; the store's collection holds that same object if
\* add_book stored it (Origin.shared), a book the store built itself from the
\* file is not in the caller's hands
CallerEditsBook(s) ==
    \E k \in DOMAIN books[s], m \in {"issue", "return_book"} :
        \E r \in {IF m = "issue" THEN Book_issue(books[s][k])
                   ELSE Book_return_book(books[s][k])} :
        /\ alive[s]
        /\ ~inserted[s][k].loaded
        /\ r.ret
        /\ books' = IF inserted[s][k].shared
                    THEN [books EXCEPT ![s][k] = r.book]
                    ELSE books
        /\ last' = Query("caller_book", s, books[s][k].isbn)
        /\ mark' = NoMark
        /\ out' = NoOut
        /\ UNCHANGED <<alive, disk, issuedSince, inserted>>

\* the caller of display_all kept the list it was given and now calls pop()
\* on it
CallerEditsList(s) ==
    /\ alive[s]
    /\ last.op = "display_all" /\ last.store = s
    /\ out.list # <<>>
    /\ books' = IF display_all_alias
                THEN [books EXCEPT ![s] = SubSeq(@, 1, Len(@) - 1)]
                ELSE books
    /\ inserted' = IF display_all_alias
                   THEN [inserted EXCEPT ![s] = SubSeq(@, 1, Len(@) - 1)]
                   ELSE inserted
    /\ last' = Query("caller_list", s, NoIsbn)
    /\ mark' = NoMark
    /\ out' = NoOut
    /\ UNCHANGED <<alive, disk, issuedSince>>

\* the store and a caller that edits what it kept; of the queries only
\* display_all hands the caller something it can edit
NextAlias ==
    \E s \in Procs :
        \/ Construct(s)
        \/ AddBook(s)
        \/ IssueBook(s)
        \/ ReturnBook(s)
        \/ SaveCatalog(s)
        \/ DisplayAll(s)
        \/ CallerEditsBook(s)
        \/ CallerEditsList(s)

\* the store starts where no file is, or over a file of two records
InitAlias ==
    /\ Init
    /\ disk.bak = Absent
    /\ \/ disk.cat = Absent
       \/ disk.cat.kind = "json" /\ Len(disk.cat.doc) = 2

SpecAlias == InitAlias /\ [][NextAlias]_vars

----------------------------------------------------------------------------
(* Two instances over one catalog file *)

\* both instances find the same file: none, or an empty catalog
InitShared ==
    /\ Init
    /\ disk.bak = Absent
    /\ disk.cat \in {Absent, Json(<<>>)}

\* each instance is constructed once
ConstructOnce(s) ==
    /\ ~alive[s]
    /\ Construct(s)

\* the instances add and issue (return_book writes the file the way
\* issue_book does); the calls of the two interleave in any order, each call
\* running to its end
NextShared ==
    \E s \in Stores :
        \/ ConstructOnce(s)
        \/ AddBook(s)
        \/ IssueBook(s)

SpecShared == InitShared /\ [][NextShared]_vars

----------------------------------------------------------------------------
(* Properties *)

Mutators == {"add", "issue", "return"}

WriteFailed == {"open_failed", "partial"}

\* the file holds the serialization of the whole collection of store s
InSync(s) == disk.cat = dump(books[s])

\* C1: whenever add, issue or returnItem returns true, the backing file at the
\* moment the call returns equals the serialization of the in-memory
\* collection, whatever the outcome of the file write.
C1_FileMirrorsMemoryAfterSuccess ==
    (last.op \in Mutators /\ last.ret) => InSync(last.store)

\* C2: no two records held in a store's collection have the same isbn,
\* whatever the backing file held when the store was constructed.
C2_IsbnUnique ==
    \A s \in Stores :
        \A i, j \in DOMAIN books[s] :
            i # j => books[s][i].isbn # books[s][j].isbn

\* C3: when the file write inside persist, add, issue or returnItem fails, the
\* call returns false and raises nothing.
C3_WriteFailureReturnsFalse ==
    (last.op \in Mutators \cup {"persist"} /\ last.wres \in WriteFailed)
        => (~last.ret /\ ~last.raised)

\* C4: constructing a store over a file that exists and does not parse leaves
\* the unparseable content at the backup path, a valid empty catalog at the
\* original path, and a store with zero records.
C4_CorruptFileRecovered ==
    [][ (last'.op = "construct" /\ last'.rres = "ok"
            /\ disk.cat.kind \in {"badjson", "nonutf8"})
        => /\ ~last'.raised
           /\ disk'.bak = disk.cat
           /\ disk'.cat = dump(<<>>)
           /\ books'[last'.store] = <<>> ]_vars

\* C5: constructing a store never raises to the caller, for every state of
\* the backing file and every failure of the rename or the rewrite.
C5_ConstructNeverRaises ==
    last.op = "construct" => (~last.raised /\ alive[last.store])

\* C6: a persist() that succeeds, followed by constructing a store on the same
\* path (the file being readable), yields a collection equal to the one
\* saved: as many records, in the same order, with the same fields.
C6_RoundTrip ==
    (mark.kind = "reloaded" /\ last.rres = "ok")
        => (~last.raised /\ books[last.store] = mark.books)

C6_Witness ==
    /\ mark.kind = "reloaded"
    /\ last.rres = "ok"
    /\ Len(mark.books) = 2
    /\ \E i \in DOMAIN mark.books : mark.books[i].status = "issued"
    /\ \E i \in DOMAIN mark.books : mark.books[i].status = "available"

\* C7: add(record) with an isbn the store already holds returns false and
\* changes neither the collection nor the backing file.
C7_DuplicateAddChangesNothing ==
    [][ (/\ last'.op = "add"
         /\ \E i \in DOMAIN books[last'.store] :
                books[last'.store][i].isbn = last'.arg)
        => /\ ~last'.ret
           /\ ~last'.raised
           /\ last'.wres = "none"
           /\ books' = books
           /\ disk' = disk ]_vars

C7_Witness ==
    /\ last.op = "add"
    /\ ~last.ret
    /\ Len(books[last.store]) = 2
    /\ \E i \in DOMAIN books[last.store] : books[last.store][i].isbn = last.arg
    /\ ~InSync(last.store)

\* C8: issue(isbn) on a record that is in the store and available returns
\* true and findByIsbn(isbn) is then not available; an issue(isbn) called
\* again with no returnItem(isbn) in between returns false.
C8_IssueOnceThenRefused ==
    [][ last'.op = "issue" =>
          LET s == last'.store
              i == last'.arg
              k == search_by_isbn(books[s], i)
              k2 == search_by_isbn(books'[s], i)
          IN  /\ (k # 0 /\ is_available(books[s][k]))
                    => (last'.ret /\ k2 # 0 /\ ~is_available(books'[s][k2]))
              /\ i \in issuedSince[s] => ~last'.ret ]_vars

C8_Witness ==
    /\ last.op = "issue"
    /\ ~last.ret
    /\ last.arg \in issuedSince[last.store]
    /\ Len(books[last.store]) = 2

\* C9: issue(isbn) on an unavailable record, returnItem(isbn) on an available
\* record, and either call with an isbn not in the store return false; a
\* failing issue or returnItem makes no file write and leaves the collection
\* and the backing file as they were.
C9_FailedIssueReturnChangesNothing ==
    [][ last'.op \in {"issue", "return"} =>
          LET s == last'.store
              k == search_by_isbn(books[s], last'.arg)
          IN  /\ k = 0 => ~last'.ret
              /\ (k # 0 /\ last'.op = "issue" /\ ~is_available(books[s][k]))
                    => ~last'.ret
              /\ (k # 0 /\ last'.op = "return" /\ is_available(books[s][k]))
                    => ~last'.ret
              /\ ~last'.ret =>
                    /\ ~last'.raised
                    /\ last'.wres = "none"
                    /\ books' = books
                    /\ disk' = disk ]_vars

C9_Witness ==
    /\ last.op = "return"
    /\ ~last.ret
    /\ search_by_isbn(books[last.store], last.arg) # 0
    /\ is_available(books[last.store][search_by_isbn(books[last.store], last.arg)])
    /\ ~InSync(last.store)

\* two file contents hold the same catalog: the same text, or documents that
\* load as the same records in the same order
SameCatalog(c1, c2) ==
    \/ c1 = c2
    \/ /\ c1.kind = "json" /\ load_exception(c1, "ok") = "none"
       /\ c2.kind = "json" /\ load_exception(c2, "ok") = "none"
       /\ books_from_data(c1.doc) = books_from_data(c2.doc)

\* C10, as stated: issue(isbn) followed by returnItem(isbn) on an available
\* record both return true and leave the in-memory collection and the backing
\* file equal to what they were before the issue.
C10_ReturnRestoresMemoryAndFile ==
    mark.kind = "returned"
        => /\ last.ret
           /\ books[mark.store] = mark.books
           /\ SameCatalog(disk.cat, mark.cat)

\* C10, amended: issue(isbn) followed by returnItem(isbn) on an available
\* record both return true and leave the in-memory collection equal to what
\* it was before the issue; when returnItem's write succeeds the file holds the
\* serialization of that collection, which is the catalog the file held
\* before the issue only if the file mirrored the collection then.
C10_ReturnRestoresMemory ==
    mark.kind = "returned"
        => /\ last.ret
           /\ books[mark.store] = mark.books
           /\ last.wres = "ok" => disk.cat = dump(mark.books)
           /\ (last.wres = "ok" /\ SameCatalog(mark.cat, dump(mark.books)))
                 => SameCatalog(disk.cat, mark.cat)

C10_Witness ==
    /\ mark.kind = "returned"
    /\ last.op = "return"
    /\ last.ret
    /\ Len(mark.books) = 2
    /\ ~SameCatalog(disk.cat, mark.cat)

----------------------------------------------------------------------------

\* C11: an in-memory mutation is not rolled back when the file write that
\* follows it fails: after add the record is still the last of the collection,
\* findByIsbn returns it and a later add with its isbn returns false; after
\* issue or returnItem the status stays flipped.
C11_NoRollbackOnFailedWrite ==
    [][ (last'.op \in Mutators /\ last'.wres \in WriteFailed) =>
          LET s == last'.store
              i == last'.arg
              k == search_by_isbn(books[s], i)
              k2 == search_by_isbn(books'[s], i)
          IN  /\ last'.op = "add" =>
                    /\ k = 0
                    /\ k2 = Len(books[s]) + 1
                    /\ Len(books'[s]) = Len(books[s]) + 1
                    /\ SubSeq(books'[s], 1, Len(books[s])) = books[s]
                    /\ \A b \in NewBooks, wo \in WriteOutcomes :
                          b.isbn = i => ~add_book(books'[s], disk', b, wo).ret
              /\ last'.op = "issue" =>
                    /\ k # 0 /\ k2 = k
                    /\ is_available(books[s][k])
                    /\ books'[s] = [books[s] EXCEPT ![k].status = "issued"]
              /\ last'.op = "return" =>
                    /\ k # 0 /\ k2 = k
                    /\ books[s][k].status = "issued"
                    /\ books'[s] = [books[s] EXCEPT ![k].status = "available"] ]_vars

C11_Witness ==
    /\ last.op = "add"
    /\ last.wres = "partial"
    /\ Len(books[last.store]) = 2
    /\ search_by_isbn(books[last.store], last.arg) = 2
    /\ disk.cat = Truncated

\* C12: whenever persist returns true the backing file holds exactly the
\* serialization of the whole in-memory collection in its current order,
\* whatever the file held before (also the remains of a failed write): the
\* divergence between memory and file ends there.
C12_PersistOverwrites ==
    (last.op = "persist" /\ last.ret) =>
        /\ disk.cat = dump(books[last.store])
        /\ disk.cat.kind = "json"
        /\ Len(disk.cat.doc) = Len(books[last.store])

\* a persist that succeeds over the remains of a cut-short write
C12_Witness ==
    /\ last.op = "persist" /\ last.ret
    /\ mark.kind = "persisted" /\ mark.cat = Truncated
    /\ Len(books[last.store]) = 2
    /\ disk.cat = dump(books[last.store])

\* C13: a store constructed while the backing file is absent starts with an
\* empty collection; if the write succeeds the file exists afterwards and
\* holds a valid empty catalog (one that loads as no records); no backup file
\* is created, whatever the outcome of the write.
C13_AbsentFileStartsEmpty ==
    [][ (last'.op = "construct" /\ disk.cat.kind = "absent") =>
          LET s == last'.store IN
          /\ ~last'.raised /\ alive'[s]
          /\ books'[s] = <<>>
          /\ disk'.bak = disk.bak
          /\ last'.wres # "none"
          /\ last'.wres = "ok" =>
                /\ disk'.cat.kind = "json"
                /\ load_exception(disk'.cat, "ok") = "none"
                /\ books_from_data(disk'.cat.doc) = <<>> ]_vars

\* a store has just been constructed where no file was, and the file is there
C13_Witness ==
    /\ last.op = "construct" /\ last.rres = "none" /\ last.wres = "ok"
    /\ alive[last.store] /\ books[last.store] = <<>>
    /\ disk.cat = Json(<<>>) /\ disk.bak = Absent

\* C14: when construction over an existing backing file fails for a reason
\* other than a parse failure (the file cannot be opened or read, is not
\* UTF-8 text, or holds a record Book cannot be built from), the store
\* starts with an empty collection and the file is not touched: no write, no
\* rename, the catalog and the backup path are as they were.
C14_OtherLoadFailureLeavesFile ==
    [][ (/\ last'.op = "construct"
         /\ disk.cat.kind # "absent"
         /\ load_exception(disk.cat, last'.rres) \notin {"none", "JSONDecodeError"}) =>
          LET s == last'.store IN
          /\ books'[s] = <<>>
          /\ alive'[s] /\ ~last'.raised /\ ~last'.ret
          /\ last'.wres = "none"
          /\ disk' = disk ]_vars

\* a store constructed empty over a file of two records that could not be
\* opened, the file still holding them
C14_Witness ==
    /\ last.op = "construct" /\ last.rres = "ioerror"
    /\ books[last.store] = <<>> /\ alive[last.store]
    /\ disk.cat.kind = "json" /\ Len(disk.cat.doc) = 2

\* what identifies a record: its title, author and isbn
Ident(b) == <<b.title, b.author, b.isbn>>

Idents(bks) == [k \in 1..Len(bks) |-> Ident(bks[k])]

\* C15: an add of a record whose isbn no record of the collection has
\* returns true, and listAll returns exactly the records of the collection in
\* the order they came into it (for a store that started empty: the order
\* they were added in), whatever issue and returnItem calls came between.
C15_ListAllInInsertionOrder ==
    [][ LET s == last'.store IN
        /\ (last'.op = "add" /\ search_by_isbn(books[s], last'.arg) = 0) =>
              /\ last'.ret
              /\ Len(inserted'[s]) = Len(inserted[s]) + 1
        /\ last'.op = "display_all" =>
              Idents(out'.list) = Idents(inserted'[s]) ]_vars

\* listAll has returned two records, both added to a store that started
\* empty, the first of them issued since
C15_Witness ==
    /\ last.op = "display_all" /\ Len(out.list) = 2
    /\ \A k \in 1..2 : ~inserted[last.store][k].loaded
    /\ out.list[1].status = "issued" /\ out.list[2].status = "available"
    /\ out.list[1].isbn = 1 /\ out.list[2].isbn = 2

\* C16: statistics returns total equal to the number of records of the
\* collection, available equal to the number of them that are available and
\* issued equal to total minus available, none of them negative; after two
\* adds and one issue it returns total 2, available 1, issued 1.
C16_StatisticsCount ==
    last.op = "get_statistics" =>
        LET bks == books[last.store] IN
        /\ out.stats.total = Len(bks)
        /\ out.stats.available =
              Cardinality({k \in DOMAIN bks : is_available(bks[k])})
        /\ out.stats.issued = out.stats.total - out.stats.available
        /\ out.stats.available >= 0 /\ out.stats.issued >= 0

\* statistics of a store after two adds and one issue
C16_Witness ==
    /\ last.op = "get_statistics"
    /\ Len(inserted[last.store]) = 2
    /\ \A k \in 1..2 : ~inserted[last.store][k].loaded
    /\ issuedSince[last.store] # {}
    /\ out.stats = [total |-> 2, available |-> 1, issued |-> 1]

\* two characters are the same letter when case is ignored
SameLetter(a, b) ==
    \/ a = b
    \/ {a, b} \in {{"a", "A"}, {"b", "B"}, {"c", "C"}, {"x", "X"}}

\* q is a substring of str when case is ignored
Matches(q, str) ==
    \E off \in 0..(Len(str) - Len(q)) :
        \A i \in 1..Len(q) : SameLetter(q[i], str[off + i])

\* list is the records of bks at the indices of idx, in increasing order
IsSelection(list, bks, idx) ==
    /\ Len(list) = Cardinality(idx)
    /\ \E f \in [1..Len(list) -> idx] :
          /\ \A i, j \in 1..Len(list) : i < j => f[i] < f[j]
          /\ \A i \in 1..Len(list) : list[i] = bks[f[i]]

\* C17: findByTitle and findByAuthor return exactly the records whose title
\* (author) contains the query as a substring when case is ignored, in the
\* order of the collection, and the empty list when none does or the store
\* is empty; nothing is raised.
C17_FindIsCaseInsensitiveSubstring ==
    LET bks == books[last.store] IN
    /\ last.op = "search_by_title" =>
          /\ ~last.raised
          /\ IsSelection(out.list, bks,
                         {k \in DOMAIN bks : Matches(out.q, bks[k].title)})
    /\ last.op = "search_by_author" =>
          /\ ~last.raised
          /\ IsSelection(out.list, bks,
                         {k \in DOMAIN bks : Matches(out.q, bks[k].author)})

\* a title search that found both records of the store, each by a match
\* that differs from the query in case
C17_Witness ==
    /\ last.op = "search_by_title" /\ out.q = <<"a", "B">>
    /\ Len(out.list) = 2
    /\ out.list[1].title = T1 /\ out.list[2].title = T2

\* seq1 is a prefix of seq2
IsPrefix(seq1, seq2) ==
    /\ Len(seq1) <= Len(seq2)
    /\ SubSeq(seq2, 1, Len(seq1)) = seq1

\* C19: after construction the collection is append-only: no add, issue,
\* returnItem, persist or query removes or reorders a record or changes a
\* record's title, author or isbn, so the sequence of (title, author, isbn)
\* before a call is a prefix of the sequence after it, and so of the
\* sequence at every later moment.
C19_AppendOnly ==
    [][ last'.op # "construct" =>
          \A s \in Stores : IsPrefix(Idents(books[s]), Idents(books'[s])) ]_vars

\* a record was added behind one that had been added and issued before
C19_Witness ==
    /\ last.op = "add" /\ last.ret
    /\ Len(books[last.store]) = 2
    /\ \A k \in 1..2 : ~inserted[last.store][k].loaded
    /\ search_by_isbn(books[last.store], last.arg) = 2
    /\ books[last.store][1].status = "issued"

CallerOps == {"caller_book", "caller_list"}

\* what findByIsbn, listAll and statistics report of a collection
Reports(bks) ==
    [by_isbn |-> [i \in Isbns |->
                    IF search_by_isbn(bks, i) = 0 THEN <<>>
                    ELSE <<bks[search_by_isbn(bks, i)]>>],
     list |-> display_all(bks),
     stats |-> get_statistics(bks)]

\* C18 as stated: once add has returned true the record is the store's alone:
\* a change the caller makes to the object it passed to add, or to the list
\* listAll returned, changes nothing of what findByIsbn, listAll and
\* statistics report and cannot make the collection differ from the file.
C18_NotAliased ==
    [][ last'.op \in CallerOps =>
          LET s == last'.store IN
          /\ Reports(books'[s]) = Reports(books[s])
          /\ InSync(s) => (disk'.cat = dump(books'[s])) ]_vars

\* C18 amended: the store holds the very object that was passed to add, and
\* listAll returns the store's own list: a status change the caller makes on
\* that object, or a pop from that list, is a change of the store's
\* collection, reported by findByIsbn, listAll and statistics; the file is
\* not written by it, so a collection that matched the file no longer does.
C18_SharedWithCaller ==
    [][ last'.op \in CallerOps =>
          LET s == last'.store IN
          /\ disk' = disk
          /\ Reports(books'[s]) # Reports(books[s])
          /\ InSync(s) => ~(disk'.cat = dump(books'[s]))
          /\ last'.op = "caller_book" =>
                LET k == search_by_isbn(books[s], last'.arg) IN
                /\ k # 0
                /\ Idents(books'[s]) = Idents(books[s])
                /\ books'[s][k].status # books[s][k].status
                /\ \A j \in DOMAIN books[s] : j # k => books'[s][j] = books[s][j]
          /\ last'.op = "caller_list" =>
                /\ Len(books'[s]) = Len(books[s]) - 1
                /\ IsPrefix(books'[s], books[s]) ]_vars

\* the caller has issued the book it had added; the store reports it as
\* issued while the file, written by the add, says available
C18_Witness ==
    /\ last.op = "caller_book"
    /\ Len(books[last.store]) = 1
    /\ books[last.store][1].status = "issued"
    /\ get_statistics(books[last.store]).issued = 1
    /\ disk.cat = dump([books[last.store] EXCEPT ![1].status = "available"])

\* the calls before and after the step are mutations that returned true, the
\* later one by another instance than the earlier
TwoMutations ==
    /\ last.op \in Mutators /\ last.ret
    /\ last'.op \in Mutators /\ last'.ret
    /\ last'.store # last.store

\* the record the earlier mutation added or changed, as its instance holds it
ChangedRecord ==
    to_dict(books[last.store][search_by_isbn(books[last.store], last.arg)])

\* the file holds the record object rec
InFile(rec, content) ==
    /\ content.kind = "json"
    /\ \E j \in DOMAIN content.doc : content.doc[j] = rec

\* C20 as stated, a successful mutation read as one that returned true and
\* whose write succeeded: after such a mutation by instance A and then one by
\* instance B, the file holds exactly B's collection, A's change is gone from
\* the file, and neither call reports an error.
C20_LostUpdate ==
    [][ (TwoMutations /\ last.wres = "ok" /\ last'.wres = "ok") =>
          /\ disk'.cat = dump(books'[last'.store])
          /\ ~InFile(ChangedRecord, disk'.cat)
          /\ ~last.raised /\ ~last'.raised ]_vars

\* C20 amended: a mutation by instance A that returned true and then one by
\* instance B that returned true: neither raises, A's collection is not
\* touched by B's call, and if B's write succeeded the file holds exactly B's
\* collection, so A's change is in the file only if B's own collection holds
\* the very same record; if B's write failed the file is as A left it (the
\* open failed) or truncated.
C20_LastWriterWins ==
    [][ TwoMutations =>
          LET a == last.store  b == last'.store IN
          /\ ~last.raised /\ ~last'.raised
          /\ books'[a] = books[a]
          /\ last'.wres = "ok" =>
                /\ disk'.cat = dump(books'[b])
                /\ InFile(ChangedRecord, disk'.cat) <=>
                      \E j \in DOMAIN books'[b] : to_dict(books'[b][j]) = ChangedRecord
          /\ last'.wres = "open_failed" => disk' = disk
          /\ last'.wres = "partial" => disk'.cat = Truncated ]_vars

\* both instances hold one record they added themselves, of different isbn;
\* B wrote last and the file holds B's record only
C20_Witness ==
    /\ last.op = "add" /\ last.store = "B" /\ last.wres = "ok"
    /\ alive["A"] /\ Len(books["A"]) = 1 /\ Len(books["B"]) = 1
    /\ ~inserted["A"][1].loaded /\ ~inserted["B"][1].loaded
    /\ books["A"][1].isbn # books["B"][1].isbn
    /\ disk.cat = dump(books["B"])
    /\ ~InFile(to_dict(books["A"][1]), disk.cat)

\* the collection bks holds the records of the file content
HoldsRecords(bks, content) ==
    /\ content.kind = "json"
    /\ load_exception(content, "ok") = "none"
    /\ bks = books_from_data(content.doc)

Writers == Mutators \cup {"persist"}

\* C21: no catalog content is lost without a backup. A construction that
\* finds a file and replaces or moves it leaves what the file held at the
\* backup path; and when a construction has found a file, left it in place
\* and ended with a collection that does not hold the file's records, the
\* add, issue, returnItem or persist that follows it and overwrites the file
\* finds or leaves the file's content at the backup path.
C21_NoLossWithoutBackup ==
    [][ LET s == last'.store IN
        /\ (/\ last'.op = "construct"
            /\ disk.cat.kind # "absent"
            /\ disk'.cat # disk.cat) => disk'.bak = disk.cat
        /\ (/\ last.op = "construct" /\ last.store = s
            /\ last.rres # "none" /\ last.wres = "none"
            /\ last'.op \in Writers
            /\ ~HoldsRecords(books[s], disk.cat)
            /\ disk'.cat # disk.cat) => disk'.bak = disk.cat ]_vars

Statuses == {"available", "issued"}

\* C22: whatever parseable content the file held at first, every record of
\* every collection has a status that is "available" or "issued", so exactly
\* one of issue and returnItem moves it to the other status, and every
\* record object of a file the store has just written has such a status.
C22_StatusIsAvailableOrIssued ==
    /\ \A s \in Stores : \A k \in DOMAIN books[s] :
          /\ books[s][k].status \in Statuses
          /\ Book_issue(books[s][k]).ret # Book_return_book(books[s][k]).ret
    /\ (last.wres = "ok" /\ disk.cat.kind = "json") =>
          \A j \in DOMAIN disk.cat.doc :
              \E p \in DOMAIN disk.cat.doc[j] :
                  /\ disk.cat.doc[j][p][1] = "status"
                  /\ disk.cat.doc[j][p][2] \in Statuses

Reads ==
    {"search_by_isbn", "search_by_title", "search_by_author",
     "display_all", "get_statistics"}

\* C23: reads never write. findByIsbn, findByTitle, findByAuthor, listAll and
\* statistics leave every collection, the file and the backup path as they
\* were; and a construction over a file that loads leaves the file's content
\* as it was, writes nothing and creates no backup.
C23_ReadsNeverWrite ==
    [][ /\ last'.op \in Reads =>
              /\ books' = books
              /\ disk' = disk
              /\ last'.wres = "none"
        /\ (/\ last'.op = "construct"
            /\ disk.cat.kind # "absent"
            /\ load_exception(disk.cat, last'.rres) = "none") =>
              /\ last'.ret /\ ~last'.raised
              /\ disk' = disk
              /\ last'.wres = "none" ]_vars

\* a store has loaded a file whose record has no status key; the file still
\* has none and there is no backup
C23_Witness ==
    /\ last.op = "construct" /\ last.rres = "ok" /\ last.ret
    /\ Len(books[last.store]) = 1
    /\ books[last.store][1].status = DefaultStatus
    /\ disk.cat = Json(<<ObjNoStatus>>)
    /\ disk.bak = Absent

====
